---- MODULE Spec2Model ----
(***************************************************************************)
(* Model of the Chronik bridge (chronik-lib/src/bridge.rs): the node's     *)
(* lifecycle callbacks, which mutate the indexer behind a tokio RwLock,    *)
(* and the server's read queries, which share that lock.                   *)
(***************************************************************************)
EXTENDS Integers, Sequences, FiniteSets, TLC

\* ---------------------------------------------------------------- bounds
NumTxs == 3
NumBlocks == 2
NumQueries == 2
MaxEvents == 4
MaxTime == 2

TxIds == 1..NumTxs
BlockIds == 1..NumBlocks
Queries == 1..NumQueries
Times == 1..MaxTime
\* The node's callback thread, as a waiter in the lock's queue.
NODE == 0

\* The ordered transactions of block b: txs 2b-1 and 2b (those that exist).
BlockTxList(b) ==
    IF 2 * b <= NumTxs THEN <<2 * b - 1, 2 * b>>
    ELSE IF 2 * b - 1 <= NumTxs THEN <<2 * b - 1>>
    ELSE <<>>

BlockTxs(b) == {BlockTxList(b)[k] : k \in 1..Len(BlockTxList(b))}

VARIABLES
    mempool,       \* ChronikIndexer: the mempool model (set of MempoolTx)
    index_blocks,  \* ChronikIndexer: blocks recorded in the index
    index_txs,     \* ChronikIndexer: TxId -> block it is confirmed in (0: none)
    index_final,   \* ChronikIndexer: blocks marked finalized
    writer,        \* RwLock: the write guard is held (by the node's callback)
    readers,       \* RwLock: queries holding a read guard
    waitq,         \* RwLock: FIFO queue of waiters (NODE or a query)
    npc,           \* position of the node's callback thread
    op,            \* the lifecycle callback being run
    argTx,         \* its transaction argument (0: none)
    argTime,       \* its time_first_seen argument (0: none)
    argBlock,      \* its block argument (0: none)
    idx,           \* position in the block's transactions while applying
    result,        \* the Result the inner function returned
    qpc,           \* position of each query task
    nodeTip,       \* the node's chain tip height
    nodeFinal,     \* the node's highest finalized height
    aborted,       \* the host process was aborted
    errored,       \* history: some step of a callback failed
    loaded,        \* history: this callback has loaded the block's body
    found,         \* history: this callback met its TxId in the mempool
    nInvoked,      \* history: number of callbacks the node invoked
    appliedLog,    \* history: callbacks in the order their mutation completed
    nodeAdded,     \* history: TxIds the node announced and has not since removed
    nodePending,   \* history: TxIds the node holds pending (its own mempool)
    spc,           \* position of try_setup_chronik
    params,        \* setup_chronik's SetupParams (hosts, default_port)
    hosts,         \* try_setup_chronik: the parsed socket addresses
    steps,         \* the effects setup has had so far
    setupResult,   \* what setup_chronik returned ("none" while it runs)
    badHost,       \* history: index of the first host of params that does not parse (0: none)
    ctor,          \* script codec: the constructor the script is made with
    input,         \* script codec: the constructor's argument (bytecode, hash, key)
    script,        \* script codec: the Script's bytecode
    remaining,     \* ScriptOpIter: remaining_bytecode
    items,         \* ScriptOpIter: the items next() has yielded so far
    ipc,           \* script codec: what has been done with the script
    payload,       \* serialization: the bytecode of the Script to serialize
    wire,          \* serialization: what ser() returned
    wireLen,       \* serialization: what ser_len() returned
    decoded        \* serialization: what reading the bytes back gave

engine == <<mempool, index_blocks, index_txs, index_final>>
lock == <<writer, readers, waitq>>
node == <<npc, op, argTx, argTime, argBlock, idx, result, nodeTip, nodeFinal>>
hist == <<aborted, errored, loaded, found, nInvoked, appliedLog>>
setup == <<spc, params, hosts, steps, setupResult, badHost>>
\* What a step of a callback or of a query leaves alone.
codec == <<ctor, input, script, remaining, items, ipc, payload, wire, wireLen, decoded>>
aside == <<setup, nodeAdded, nodePending, codec>>
\* The bridge and its setup, which the pure functions of the codec never touch.
bridge == <<engine, lock, node, qpc, hist, setup, nodeAdded, nodePending>>
vars == <<engine, lock, node, qpc, hist, aside>>

\* The effects of try_setup_chronik, in the order of its statements.
SetupSteps == {"parse", "indexer", "resync", "runtime", "bind", "serve", "register"}
\* SetupParams once try_setup_chronik has consumed them.
NoParams == [hosts |-> <<>>, default_port |-> 0]
\* server.serve() has been spawned: queries are accepted.
Serving == "serve" \in steps
\* StartChronikValidationInterface has run: the node delivers its callbacks.
Registered == "register" \in steps

\* The bridge once setup is over: an empty index, nobody at the lock, the
\* node idle.
InitBridge ==
    /\ mempool = {}
    /\ index_blocks = {}
    /\ index_txs = [t \in TxIds |-> 0]
    /\ index_final = {}
    /\ writer = FALSE
    /\ readers = {}
    /\ waitq = <<>>
    /\ npc = "idle"
    /\ op = "none"
    /\ argTx = 0
    /\ argTime = 0
    /\ argBlock = 0
    /\ idx = 0
    /\ result = "none"
    /\ qpc = [q \in Queries |-> "idle"]
    /\ nodeTip = 0
    /\ nodeFinal = 0
    /\ aborted = FALSE
    /\ errored = FALSE
    /\ loaded = FALSE
    /\ found = FALSE
    /\ nInvoked = 0
    /\ appliedLog = <<>>
    /\ nodeAdded = {}
    /\ nodePending = {}

\* Placeholders: no bytecode, no serialized form, no length, no result yet.
NoBytes == [len |-> [hi |-> 0, lo |-> 0], pat |-> <<>>]
NoWire == [head |-> <<>>, body |-> NoBytes]
NoSize == [hi |-> -1, lo |-> -1]
NoResult == [ok |-> FALSE, bytes |-> NoBytes, left |-> NoSize]

\* No script is being built, decoded or serialized.
CodecIdle ==
    /\ ctor = "none"
    /\ input = <<>>
    /\ script = <<>>
    /\ remaining = <<>>
    /\ items = <<>>
    /\ ipc = "none"
    /\ payload = NoBytes
    /\ wire = NoWire
    /\ wireLen = NoSize
    /\ decoded = NoResult

\* setup_chronik has returned true.
SetupDone ==
    /\ spc = "done"
    /\ params = NoParams
    /\ hosts = <<>>
    /\ steps = SetupSteps
    /\ setupResult = "true"
    /\ badHost = 0

\* The state once setup_chronik has returned true.
Init ==
    /\ InitBridge
    /\ SetupDone
    /\ CodecIdle

\* ------------------------------------------------------------ the RwLock
\* tokio::sync::RwLock is fair (write-preferring): a request is granted at
\* once only when nobody is queued before it.
\* Mutant: the write request does not wait for the readers to leave.
CanWrite_ignoring_readers == ~writer /\ waitq = <<>>

CanWrite == ~writer /\ readers = {} /\ waitq = <<>>

\* Mutant: a read request is granted whenever no writer holds the lock, past
\* a writer that is queued (a read-preferring lock).
CanRead_barging == ~writer

\* Mutant: a read request waits for the other readers too (a mutex).
CanRead_exclusive == ~writer /\ readers = {} /\ waitq = <<>>

CanRead == ~writer /\ waitq = <<>>

\* Releasing hands the lock to the waiters at the head of the queue, in order,
\* for as long as the head can be granted: the state <<writer, readers, waitq>>.
RECURSIVE Grant(_, _, _)
Grant(w, rs, q) ==
    IF q = <<>> \/ w THEN <<w, rs, q>>
    ELSE IF Head(q) = NODE
         THEN IF rs = {} THEN <<TRUE, rs, Tail(q)>> ELSE <<w, rs, q>>
         ELSE Grant(w, rs \cup {Head(q)}, Tail(q))

\* Dropping the write guard.
ReleaseWrite ==
    LET g == Grant(FALSE, readers, waitq)
    IN  /\ writer' = g[1]
        /\ readers' = g[2]
        /\ waitq' = g[3]

\* Dropping query q's read guard.
ReleaseRead(q) ==
    LET g == Grant(writer, readers \ {q}, waitq)
    IN  /\ writer' = g[1]
        /\ readers' = g[2]
        /\ waitq' = g[3]

\* ------------------------------------------------- the indexer's operations
\* ChronikIndexer::handle_tx_added_to_mempool: insert keyed by TxId; a TxId
\* already present is a repeat observation and leaves the mempool as it is.
MempoolTx(t, s) == [txid |-> t, time_first_seen |-> s]

Indexer_tx_added(mp, t, s) ==
    IF \E e \in mp : e.txid = t THEN mp ELSE mp \cup {MempoolTx(t, s)}

\* ChronikIndexer::handle_tx_removed_from_mempool: remove if present.
Indexer_tx_removed(mp, t) == {e \in mp : e.txid # t}

\* Their results: a TxId already present (added) or absent (removed) is no error.
Indexer_tx_added_result(mp, t) == "ok"

Indexer_tx_removed_result(mp, t) == "ok"

InMempool(mp, t) == \E e \in mp : e.txid = t

\* ChronikIndexer::handle_block_connected, the index batch: the block and its
\* transactions are recorded together.
Indexer_connect_blocks(bs, b) == bs \cup {b}

Indexer_connect_txs(txs, b) ==
    [t \in TxIds |-> IF t \in BlockTxs(b) THEN b ELSE txs[t]]

\* ChronikIndexer::handle_block_disconnected, the index batch: the inverse.
Indexer_disconnect_blocks(bs, b) == bs \ {b}

Indexer_disconnect_txs(txs, b) ==
    [t \in TxIds |-> IF txs[t] = b THEN 0 ELSE txs[t]]

\* ChronikIndexer::handle_block_finalized: an overlay on a connected block.
Indexer_finalize(fin, b) == fin \cup {b}

\* crate::error::ok_or_abort_node: TRUE when the result is an error, and the
\* host process is aborted.
ok_or_abort_node(res) == res = "err"

\* ------------------------------------------------------- what the node does
Confirmed(t, tip) == \E b \in 1..tip : t \in BlockTxs(b)

NodeMayAddTx(t) == ~Confirmed(t, nodeTip)

NodeMayConnect(b) == b = nodeTip + 1

NodeMayDisconnect(b) == b = nodeTip /\ b > nodeFinal

NodeMayFinalize(b) == b <= nodeTip

NodeIdle == npc = "idle" /\ ~aborted /\ nInvoked < MaxEvents /\ Registered

\* The node calls a handler: the callback starts at pc with these arguments.
Invoke(o, t, s, b, pc) ==
    /\ NodeIdle
    /\ op' = o
    /\ argTx' = t
    /\ argTime' = s
    /\ argBlock' = b
    /\ npc' = pc
    /\ idx' = 0
    /\ result' = "none"
    /\ nInvoked' = nInvoked + 1
    /\ loaded' = FALSE
    /\ found' = FALSE
    /\ UNCHANGED <<engine, lock, qpc, aborted, errored, appliedLog, setup, codec>>

\* ------------------------------------------------------------ the handlers
handle_tx_added_to_mempool ==
    \E t \in TxIds, s \in Times :
        /\ NodeMayAddTx(t)
        /\ Invoke("add", t, s, 0, "lock")
        /\ nodeAdded' = nodeAdded \cup {t}
        /\ nodePending' = nodePending \cup {t}
        /\ UNCHANGED <<nodeTip, nodeFinal>>

handle_tx_removed_from_mempool ==
    \E t \in TxIds :
        /\ Invoke("remove", t, 0, 0, "lock")
        /\ nodeAdded' = nodeAdded \ {t}
        /\ nodePending' = nodePending \ {t}
        /\ UNCHANGED <<nodeTip, nodeFinal>>

handle_block_connected ==
    \E b \in BlockIds :
        /\ NodeMayConnect(b)
        /\ Invoke("connect", 0, 0, b, "lock")
        /\ nodeTip' = b
        /\ nodePending' = nodePending \ BlockTxs(b)
        /\ UNCHANGED <<nodeFinal, nodeAdded>>

handle_block_disconnected ==
    \E b \in BlockIds :
        /\ NodeMayDisconnect(b)
        /\ Invoke("disconnect", 0, 0, b, "lock")
        /\ nodeTip' = b - 1
        /\ nodePending' = nodePending \cup BlockTxs(b)
        /\ UNCHANGED <<nodeFinal, nodeAdded>>

\* finalize_block loads the block's body before it takes the lock.
handle_block_finalized ==
    \E b \in BlockIds :
        /\ NodeMayFinalize(b)
        /\ Invoke("finalize", 0, 0, b, "load")
        /\ nodeFinal' = IF b > nodeFinal THEN b ELSE nodeFinal
        /\ UNCHANGED <<nodeTip, nodeAdded, nodePending>>

\* A step of the callback that changes only its position and result.
Goto(pc, res) ==
    /\ npc' = pc
    /\ result' = res
    /\ UNCHANGED <<op, argTx, argTime, argBlock, nodeTip, nodeFinal, aside>>

\* The inner function returns Err through `?`: its guard is dropped.
FailUnlocked ==
    /\ Goto("check", "err")
    /\ errored' = TRUE
    /\ UNCHANGED <<aborted, loaded, found, nInvoked, appliedLog>>

FailLocked ==
    /\ FailUnlocked
    /\ ReleaseWrite

\* The callback's mutation is complete.
Applied == appliedLog' = Append(appliedLog, nInvoked)

\* Mutant: finalize_block takes the write guard first and loads the block's
\* body while holding it.
load_block_under_guard ==
    /\ npc = "load"
    /\ ~aborted
    /\ IF ~writer
       THEN /\ CanWrite
            /\ writer' = TRUE
            /\ Goto("load", "none")
            /\ UNCHANGED <<readers, waitq, hist>>
       ELSE /\ Goto("locked", "none")
            /\ loaded' = TRUE
            /\ UNCHANGED <<lock, aborted, errored, found, nInvoked, appliedLog>>
    /\ UNCHANGED <<engine, idx, qpc>>

\* self.bridge.load_block(bindex)?
load_block ==
    /\ npc = "load"
    /\ ~aborted
    /\ \/ /\ Goto("lock", "none")
          /\ loaded' = TRUE
          /\ UNCHANGED <<aborted, errored, found, nInvoked, appliedLog>>
       \/ FailUnlocked
    /\ UNCHANGED <<engine, lock, idx, qpc>>

\* Mutant: the handler does not wait for the guard (try_write) and goes on
\* without it when the lock is busy.
blocking_write_not_waiting ==
    /\ npc = "lock"
    /\ ~aborted
    /\ writer' = CanWrite
    /\ Goto("locked", "none")
    /\ UNCHANGED <<readers, waitq>>
    /\ UNCHANGED <<engine, idx, qpc, hist>>

\* self.indexer.blocking_write()
blocking_write ==
    /\ npc = "lock"
    /\ ~aborted
    /\ IF CanWrite
       THEN /\ writer' = TRUE
            /\ Goto("locked", "none")
            /\ UNCHANGED <<readers, waitq>>
       ELSE /\ waitq' = Append(waitq, NODE)
            /\ Goto("wait", "none")
            /\ UNCHANGED <<writer, readers>>
    /\ UNCHANGED <<engine, idx, qpc, hist>>

\* blocking_write returns once the queued request has been granted.
blocking_write_granted ==
    /\ npc = "wait"
    /\ ~aborted
    /\ writer
    /\ Goto("locked", "none")
    /\ UNCHANGED <<engine, lock, idx, qpc, hist>>

\* Mutant: a transaction that fails to convert is skipped (return Ok(())).
bridge_tx_skipping_failures ==
    /\ npc = "locked"
    /\ op = "add"
    /\ ~aborted
    /\ \/ Goto("apply", "none")
       \/ Goto("ret", "none")
    /\ UNCHANGED <<engine, lock, idx, qpc, hist>>

\* self.bridge.bridge_tx(ptx)?
bridge_tx ==
    /\ npc = "locked"
    /\ op = "add"
    /\ ~aborted
    /\ \/ /\ Goto("apply", "none")
          /\ UNCHANGED <<lock, hist>>
       \/ FailLocked
    /\ UNCHANGED <<engine, idx, qpc>>

\* indexer.make_chronik_block(block, bindex)?
make_chronik_block ==
    /\ npc = "locked"
    /\ op \in {"connect", "disconnect", "finalize"}
    /\ ~aborted
    /\ \/ /\ Goto("apply", "none")
          /\ UNCHANGED <<lock, hist>>
       \/ FailLocked
    /\ UNCHANGED <<engine, idx, qpc>>

\* Mutant: a transaction already in the mempool is reported as an error.
add_tx_to_mempool_duplicate_is_error ==
    /\ npc = "apply"
    /\ op = "add"
    /\ ~aborted
    /\ IF ~InMempool(mempool, argTx)
       THEN /\ mempool' = Indexer_tx_added(mempool, argTx, argTime)
            /\ found' = FALSE
            /\ Goto("ret", "none")
            /\ Applied
            /\ UNCHANGED <<lock, aborted, errored, loaded, nInvoked>>
       ELSE /\ FailLocked
            /\ UNCHANGED mempool
    /\ UNCHANGED <<index_blocks, index_txs, index_final, idx, qpc>>

\* Mutant: add_tx_to_mempool passes the TxId to handle_tx_removed_from_mempool.
add_tx_to_mempool_calls_removed ==
    /\ npc = "apply"
    /\ op = "add"
    /\ ~aborted
    /\ IF Indexer_tx_removed_result(mempool, argTx) = "ok"
       THEN /\ mempool' = Indexer_tx_removed(mempool, argTx)
            /\ found' = InMempool(mempool, argTx)
            /\ Goto("ret", "none")
            /\ Applied
            /\ UNCHANGED <<lock, aborted, errored, loaded, nInvoked>>
       ELSE /\ FailLocked
            /\ UNCHANGED mempool
    /\ UNCHANGED <<index_blocks, index_txs, index_final, idx, qpc>>

\* indexer.handle_tx_added_to_mempool(MempoolTx { .. })?
add_tx_to_mempool ==
    /\ npc = "apply"
    /\ op = "add"
    /\ ~aborted
    /\ IF Indexer_tx_added_result(mempool, argTx) = "ok"
       THEN /\ mempool' = Indexer_tx_added(mempool, argTx, argTime)
            /\ found' = InMempool(mempool, argTx)
            /\ Goto("ret", "none")
            /\ Applied
            /\ UNCHANGED <<lock, aborted, errored, loaded, nInvoked>>
       ELSE /\ FailLocked
            /\ UNCHANGED mempool
    /\ UNCHANGED <<index_blocks, index_txs, index_final, idx, qpc>>

\* Mutant: removing a transaction that is not in the mempool is an error.
tx_removed_from_mempool_absent_is_error ==
    /\ npc = "locked"
    /\ op = "remove"
    /\ ~aborted
    /\ IF InMempool(mempool, argTx)
       THEN /\ mempool' = Indexer_tx_removed(mempool, argTx)
            /\ found' = TRUE
            /\ Goto("check", "ok")
            /\ Applied
            /\ UNCHANGED <<aborted, errored, loaded, nInvoked>>
       ELSE /\ FailUnlocked
            /\ UNCHANGED mempool
    /\ UNCHANGED <<index_blocks, index_txs, index_final, lock, idx, qpc>>

\* indexer.handle_tx_removed_from_mempool(txid): the result goes straight to
\* ok_or_abort_node, with the guard still held.
tx_removed_from_mempool ==
    /\ npc = "locked"
    /\ op = "remove"
    /\ ~aborted
    /\ IF Indexer_tx_removed_result(mempool, argTx) = "ok"
       THEN /\ mempool' = Indexer_tx_removed(mempool, argTx)
            /\ found' = InMempool(mempool, argTx)
            /\ Goto("check", "ok")
            /\ Applied
            /\ UNCHANGED <<aborted, errored, loaded, nInvoked>>
       ELSE /\ FailUnlocked
            /\ UNCHANGED mempool
    /\ UNCHANGED <<index_blocks, index_txs, index_final, lock, idx, qpc>>

\* Mutant: connect_block calls indexer.handle_block_disconnected.
connect_block_calls_disconnected ==
    /\ npc = "apply"
    /\ op = "connect"
    /\ ~aborted
    /\ index_blocks' = Indexer_disconnect_blocks(index_blocks, argBlock)
    /\ index_txs' = Indexer_disconnect_txs(index_txs, argBlock)
    /\ idx' = 1
    /\ Goto("each", "none")
    /\ UNCHANGED <<mempool, index_final, lock, qpc, hist>>

\* Mutant: the guard is dropped right after the index batch, before the
\* block's transactions have left the mempool.
connect_block_guard_dropped_early ==
    /\ npc = "apply"
    /\ op = "connect"
    /\ ~aborted
    /\ index_blocks' = Indexer_connect_blocks(index_blocks, argBlock)
    /\ index_txs' = Indexer_connect_txs(index_txs, argBlock)
    /\ idx' = 1
    /\ Goto("each", "none")
    /\ ReleaseWrite
    /\ UNCHANGED <<mempool, index_final, qpc, hist>>

\* indexer.handle_block_connected(block)?: the index batch.
connect_block ==
    /\ npc = "apply"
    /\ op = "connect"
    /\ ~aborted
    /\ \/ /\ index_blocks' = Indexer_connect_blocks(index_blocks, argBlock)
          /\ index_txs' = Indexer_connect_txs(index_txs, argBlock)
          /\ idx' = 1
          /\ Goto("each", "none")
          /\ UNCHANGED <<lock, hist>>
       \/ /\ FailLocked
          /\ UNCHANGED <<index_blocks, index_txs, idx>>
    /\ UNCHANGED <<mempool, index_final, qpc>>

\* Mutant: disconnect_block calls indexer.handle_block_connected.
disconnect_block_calls_connected ==
    /\ npc = "apply"
    /\ op = "disconnect"
    /\ ~aborted
    /\ index_blocks' = Indexer_connect_blocks(index_blocks, argBlock)
    /\ index_txs' = Indexer_connect_txs(index_txs, argBlock)
    /\ idx' = 1
    /\ Goto("each", "none")
    /\ UNCHANGED <<mempool, index_final, lock, qpc, hist>>

\* indexer.handle_block_disconnected(block)?: the index batch.
disconnect_block ==
    /\ npc = "apply"
    /\ op = "disconnect"
    /\ ~aborted
    /\ \/ /\ index_blocks' = Indexer_disconnect_blocks(index_blocks, argBlock)
          /\ index_txs' = Indexer_disconnect_txs(index_txs, argBlock)
          /\ index_final' = index_final \ {argBlock}
          /\ idx' = 1
          /\ Goto("each", "none")
          /\ UNCHANGED <<lock, hist>>
       \/ /\ FailLocked
          /\ UNCHANGED <<index_blocks, index_txs, index_final, idx>>
    /\ UNCHANGED <<mempool, qpc>>

\* The mempool half of a connect (the block's txs leave the mempool) or of a
\* disconnect (they return to it), one transaction at a time.
block_txs_mempool ==
    /\ npc = "each"
    /\ ~aborted
    /\ IF idx <= Len(BlockTxList(argBlock))
       THEN /\ \E s \in Times :
                 mempool' = IF op = "connect"
                            THEN Indexer_tx_removed(mempool, BlockTxList(argBlock)[idx])
                            ELSE Indexer_tx_added(mempool, BlockTxList(argBlock)[idx], s)
            /\ found' = (found \/ InMempool(mempool, BlockTxList(argBlock)[idx]))
            /\ idx' = idx + 1
            /\ Goto("each", "none")
            /\ UNCHANGED <<aborted, errored, loaded, nInvoked, appliedLog>>
       ELSE /\ Goto("ret", "none")
            /\ Applied
            /\ UNCHANGED <<mempool, idx, aborted, errored, loaded, found, nInvoked>>
    /\ UNCHANGED <<index_blocks, index_txs, index_final, lock, qpc>>

\* indexer.handle_block_finalized(block)?
\* Mutant: finalize_block passes the block to handle_block_disconnected.
finalize_block_calls_disconnected ==
    /\ npc = "apply"
    /\ op = "finalize"
    /\ ~aborted
    /\ \/ /\ index_blocks' = Indexer_disconnect_blocks(index_blocks, argBlock)
          /\ index_txs' = Indexer_disconnect_txs(index_txs, argBlock)
          /\ Goto("ret", "none")
          /\ Applied
          /\ UNCHANGED <<lock, aborted, errored, loaded, found, nInvoked>>
       \/ /\ FailLocked
          /\ UNCHANGED <<index_blocks, index_txs>>
    /\ UNCHANGED <<mempool, index_final, idx, qpc>>

finalize_block ==
    /\ npc = "apply"
    /\ op = "finalize"
    /\ ~aborted
    /\ \/ /\ argBlock \in index_blocks
          /\ index_final' = Indexer_finalize(index_final, argBlock)
          /\ Goto("ret", "none")
          /\ Applied
          /\ UNCHANGED <<lock, aborted, errored, loaded, found, nInvoked>>
       \/ /\ FailLocked
          /\ UNCHANGED index_final
    /\ UNCHANGED <<mempool, index_blocks, index_txs, idx, qpc>>

\* Ok(()): the inner function returns and its guard is dropped.
return_ok ==
    /\ npc = "ret"
    /\ ~aborted
    /\ ReleaseWrite
    /\ Goto("check", "ok")
    /\ UNCHANGED <<engine, idx, qpc, hist>>

\* Mutant: the handler drops the result (let _ = ...) and returns to the node.
handle_return_ignoring_errors ==
    /\ npc = "check"
    /\ ~aborted
    /\ npc' = "idle"
    /\ op' = "none"
    /\ argTx' = 0
    /\ argTime' = 0
    /\ argBlock' = 0
    /\ result' = "none"
    /\ IF op = "remove" THEN ReleaseWrite ELSE UNCHANGED lock
    /\ UNCHANGED <<engine, idx, qpc, nodeTip, nodeFinal, hist, aside>>

\* ok_or_abort_node("handle_..", result), then the handler returns to the node.
handle_return ==
    /\ npc = "check"
    /\ ~aborted
    /\ IF ok_or_abort_node(result)
       THEN /\ aborted' = TRUE
            /\ npc' = "aborted"
            /\ UNCHANGED <<op, argTx, argTime, argBlock, result, lock>>
       ELSE /\ npc' = "idle"
            /\ op' = "none"
            /\ argTx' = 0
            /\ argTime' = 0
            /\ argBlock' = 0
            /\ result' = "none"
            /\ IF op = "remove" THEN ReleaseWrite ELSE UNCHANGED lock
            /\ UNCHANGED aborted
    /\ UNCHANGED <<engine, idx, qpc, nodeTip, nodeFinal, aside>>
    /\ UNCHANGED <<errored, loaded, found, nInvoked, appliedLog>>

\* ------------------------------------------------------------- the queries
\* A server task asks for shared access (indexer.read().await).
QueryRequest(q) ==
    /\ qpc[q] = "idle"
    /\ ~aborted
    /\ Serving
    /\ IF CanRead
       THEN /\ readers' = readers \cup {q}
            /\ qpc' = [qpc EXCEPT ![q] = "reading"]
            /\ UNCHANGED <<writer, waitq>>
       ELSE /\ waitq' = Append(waitq, q)
            /\ qpc' = [qpc EXCEPT ![q] = "waiting"]
            /\ UNCHANGED <<writer, readers>>
    /\ UNCHANGED <<engine, node, hist, aside>>

\* The queued request has been granted.
QueryGranted(q) ==
    /\ qpc[q] = "waiting"
    /\ ~aborted
    /\ q \in readers
    /\ qpc' = [qpc EXCEPT ![q] = "reading"]
    /\ UNCHANGED <<engine, lock, node, hist, aside>>

\* The query is done and drops its read guard.
QueryRelease(q) ==
    /\ qpc[q] = "reading"
    /\ ~aborted
    /\ ReleaseRead(q)
    /\ qpc' = [qpc EXCEPT ![q] = "idle"]
    /\ UNCHANGED <<engine, node, hist, aside>>

Next ==
    \/ handle_tx_added_to_mempool
    \/ handle_tx_removed_from_mempool
    \/ handle_block_connected
    \/ handle_block_disconnected
    \/ handle_block_finalized
    \/ load_block
    \/ blocking_write
    \/ blocking_write_granted
    \/ bridge_tx
    \/ make_chronik_block
    \/ add_tx_to_mempool
    \/ tx_removed_from_mempool
    \/ connect_block
    \/ disconnect_block
    \/ block_txs_mempool
    \/ finalize_block
    \/ return_ok
    \/ handle_return
    \/ \E q \in Queries : QueryRequest(q)
    \/ \E q \in Queries : QueryGranted(q)
    \/ \E q \in Queries : QueryRelease(q)

Spec == Init /\ [][Next]_vars

\* ------------------------------------------------------------ the queries' view
MempoolTxIds == {e.txid : e \in mempool}

\* A mempool query by TxId: whether the transaction is pending.
MempoolQuery(t) == InMempool(mempool, t)

\* An index query by TxId: the block the transaction is confirmed in (0: none).
IndexQuery(t) == index_txs[t]

\* The callback holds the write guard it asked for.
NodeHoldsGuard ==
    \/ npc \in {"wait", "locked", "apply", "each", "ret"}
    \/ op = "remove" /\ npc \in {"check", "aborted"}

\* ------------------------------------------------------------------- claims
\* C1: a lifecycle callback that holds access to the engine holds it alone
\* (no query holds read access with it, and it is the node's one running
\* callback), and every step that changes the mempool model or the index is
\* taken with the write guard held and no reader inside.
C1_ExclusiveMutation ==
    /\ [](writer => readers = {} /\ NodeHoldsGuard)
    /\ [][engine' # engine => writer /\ readers = {} /\ NodeHoldsGuard]_vars

\* C1 witness: a block is being applied under the guard while a query waits.
C1_Witness ==
    /\ writer
    /\ npc = "each"
    /\ idx = 2
    /\ \E q \in Queries : qpc[q] = "waiting" /\ q \notin readers

\* A connect or disconnect has written its index batch and has not yet moved
\* all of the block's transactions out of (into) the mempool.
BlockHalfApplied ==
    /\ op \in {"connect", "disconnect"}
    /\ npc = "each"
    /\ idx <= Len(BlockTxList(argBlock))

\* Block b is in the index while one of its transactions is still pending or
\* is not recorded under it, or b is not in the index while one is.
Torn(b) ==
    \/ /\ b \in index_blocks
       /\ \E t \in BlockTxs(b) : MempoolQuery(t) \/ IndexQuery(t) # b
    \/ /\ b \notin index_blocks
       /\ \E t \in BlockTxs(b) : IndexQuery(t) = b

\* C2: a query that holds read access never sees a half-applied block: no
\* connect or disconnect is part-way through, no block is torn between the
\* index and the mempool, and nothing it reads changes while it holds access.
C2_NoHalfAppliedBlockVisible ==
    /\ [](readers # {} => ~BlockHalfApplied /\ \A b \in BlockIds : ~Torn(b))
    /\ [][readers # {} => engine' = engine]_vars

\* C2 witness: a query reads right after a block that took a pending
\* transaction out of the mempool was connected in full.
C2_Witness ==
    /\ op = "connect"
    /\ npc = "check"
    /\ result = "ok"
    /\ found
    /\ \E q \in Queries : qpc[q] = "reading"

\* C2 second case: a query asked for access while a disconnect was half
\* applied, and is kept waiting.
C2_WitnessConcurrent ==
    /\ op = "disconnect"
    /\ BlockHalfApplied
    /\ \E q \in Queries : qpc[q] = "waiting" /\ q \notin readers

\* C3: mutations take effect in the order the node invoked the callbacks:
\* the k-th completed mutation is that of the k-th callback, none is skipped,
\* a callback returns to the node only with its mutation complete, and every
\* step that changes the engine belongs to the latest callback, all earlier
\* ones being complete.
C3_ArrivalOrder ==
    /\ [](/\ \A k \in 1..Len(appliedLog) : appliedLog[k] = k
          /\ Len(appliedLog) \in {nInvoked - 1, nInvoked}
          /\ (npc = "idle" => Len(appliedLog) = nInvoked))
    /\ [][engine' # engine => Len(appliedLog) = nInvoked - 1]_vars

\* C3 witness: block-finalized, invoked third, has been applied third.
C3_Witness ==
    /\ op = "finalize"
    /\ npc = "ret"
    /\ loaded
    /\ appliedLog = <<1, 2, 3>>

\* C4: once block-connected has applied block B, every transaction of B is
\* absent for a mempool query and present under B for an index query: so too
\* a transaction that tx-added had put into the mempool before.
C4_AddedThenConnected ==
    (op = "connect" /\ npc \in {"ret", "check"} /\ result # "err") =>
        /\ argBlock \in index_blocks
        /\ \A t \in BlockTxs(argBlock) :
               ~MempoolQuery(t) /\ IndexQuery(t) = argBlock

\* C4 witness: tx-added, then block-connected of a block that took the
\* transaction out of the mempool, then a query.
C4_Witness ==
    /\ nInvoked = 2
    /\ op = "connect"
    /\ npc = "check"
    /\ result = "ok"
    /\ found
    /\ \E q \in Queries : qpc[q] = "reading"

\* C5: once block-disconnected has applied block B, B is gone from the index
\* and every transaction of B is pending (mempool-visible) and unconfirmed,
\* with no tx-added from the node.
C5_ConnectedThenDisconnected ==
    (op = "disconnect" /\ npc \in {"ret", "check"} /\ result # "err") =>
        /\ argBlock \notin index_blocks
        /\ \A t \in BlockTxs(argBlock) :
               MempoolQuery(t) /\ IndexQuery(t) = 0

\* C5 witness: block-connected(B) immediately followed by
\* block-disconnected(B), the only two events; B's transactions are pending.
C5_Witness ==
    /\ nInvoked = 2
    /\ op = "disconnect"
    /\ npc = "check"
    /\ result = "ok"
    /\ BlockTxs(argBlock) # {}
    /\ BlockTxs(argBlock) \subseteq MempoolTxIds

\* C6: after any step of a callback has failed, the callback can only go on
\* to abort the process: the engine is never changed again, the handler never
\* returns to the node, no further callback is invoked, and nothing runs
\* once the process is aborted.
C6_ErrorsAreFatal ==
    /\ [](errored => npc \in {"check", "aborted"} /\ result = "err")
    /\ [](aborted <=> npc = "aborted")
    /\ [][errored => /\ engine' = engine
                     /\ nInvoked' = nInvoked
                     /\ npc' \in {"check", "aborted"}]_vars
    /\ [][~aborted]_vars

\* C6 witness: the process was aborted after an error.
C6_Witness == aborted /\ errored /\ op = "connect"

NodeQueued == \E k \in 1..Len(waitq) : waitq[k] = NODE

\* C9: in block-finalized the write guard is neither held nor requested while
\* the block's body is being fetched, the guard is requested only with the
\* body obtained, and a block is marked finalized only by a callback that
\* has obtained the body.
C9_FetchBeforeGuard ==
    /\ [](npc = "load" => ~writer /\ ~NodeQueued)
    /\ [](op = "finalize" /\ (writer \/ NodeQueued) => loaded)
    /\ [][index_final' \ index_final # {} => loaded /\ op = "finalize"]_vars

\* C9 witness: a block was marked finalized by a callback that had fetched
\* its body first.
C9_Witness ==
    /\ op = "finalize"
    /\ npc = "check"
    /\ result = "ok"
    /\ loaded
    /\ argBlock \in index_final

\* C9 second case: the fetch is in progress while a query holds read access.
C9_WitnessFetching ==
    /\ op = "finalize"
    /\ npc = "load"
    /\ readers # {}

\* C10: a query is kept waiting only while a mutation holds the guard or is
\* queued for it; a query that asks for shared access when neither is the case
\* gets it at once, whoever else is reading.
C10_ReadersDoNotBlockReaders ==
    /\ [](\A q \in Queries :
              qpc[q] = "waiting" /\ q \notin readers => writer \/ NodeQueued)
    /\ [][\A q \in Queries :
              (qpc[q] = "idle" /\ qpc'[q] # "idle" /\ ~writer /\ ~NodeQueued) =>
                  (qpc'[q] = "reading" /\ q \in readers' /\ readers \subseteq readers')]_vars

\* C10 witness: every query holds shared access at the same time.
C10_Witness ==
    /\ readers = Queries
    /\ \A q \in Queries : qpc[q] = "reading"
    /\ Cardinality(readers) >= 2

\* ------------------------------------------------------------------- setup
MaxHosts == 2
MaxPort == 2

Ports == 1..MaxPort
\* The texts a host can be: "ip:port", a bare "ip", or anything else.
HostTexts ==
    {[kind |-> "sockaddr", port |-> p] : p \in Ports}
        \cup {[kind |-> "ip", port |-> 0], [kind |-> "other", port |-> 0]}

HostLists == UNION {[1..n -> HostTexts] : n \in 0..MaxHosts}

\* host.parse::<SocketAddr>(): the text must carry both an IP and a port.
parse_SocketAddr(host) ==
    IF host.kind = "sockaddr" THEN [ok |-> TRUE, ip |-> TRUE, port |-> host.port]
    ELSE [ok |-> FALSE, ip |-> FALSE, port |-> 0]

\* host.parse::<IpAddr>(): the text must be an IP and nothing more.
parse_IpAddr(host) == [ok |-> host.kind = "ip", ip |-> host.kind = "ip"]

\* Mutant: a host that is no IP falls back to the unspecified address
\* (unwrap_or) instead of failing.
parse_socket_addr_falling_back(host, default_port) ==
    IF parse_SocketAddr(host).ok THEN parse_SocketAddr(host)
    ELSE [ok |-> TRUE, ip |-> parse_IpAddr(host).ip, port |-> default_port]

parse_socket_addr(host, default_port) ==
    IF parse_SocketAddr(host).ok THEN parse_SocketAddr(host)
    ELSE IF ~parse_IpAddr(host).ok
         THEN [ok |-> FALSE, ip |-> FALSE, port |-> 0]
         ELSE [ok |-> TRUE, ip |-> parse_IpAddr(host).ip, port |-> default_port]

\* .map(parse_socket_addr).collect::<Result<Vec<_>>>(): the addresses, or the
\* first error, at which the rest of the hosts is not looked at.
RECURSIVE collect(_, _, _)
collect(hs, default_port, acc) ==
    IF hs = <<>> THEN [ok |-> TRUE, addrs |-> acc]
    ELSE LET r == parse_socket_addr(Head(hs), default_port)
         IN  IF r.ok THEN collect(Tail(hs), default_port, Append(acc, r))
             ELSE [ok |-> FALSE, addrs |-> <<>>]

\* The index of the first host that is neither a socket address nor an IP.
FirstBadHost(hs) ==
    LET bad == {i \in 1..Len(hs) : hs[i].kind = "other"}
    IN  IF bad = {} THEN 0 ELSE CHOOSE i \in bad : \A j \in bad : i <= j

\* setup_chronik has been called with some parameters.
InitSetup ==
    /\ InitBridge
    /\ spc = "parse"
    /\ params \in [hosts : HostLists, default_port : Ports]
    /\ hosts = <<>>
    /\ steps = {}
    /\ setupResult = "none"
    /\ badHost = FirstBadHost(params.hosts)
    /\ CodecIdle

\* Mutant: the validation interface is registered as soon as the indexer
\* exists, before the resync and before the server.
SetupAfter_registering_early(step) ==
    CASE step = "parse" -> "indexer"
      [] step = "indexer" -> "register"
      [] step = "register" -> "resync"
      [] step = "resync" -> "runtime"
      [] step = "runtime" -> "bind"
      [] step = "bind" -> "serve"
      [] step = "serve" -> "done"

\* try_setup_chronik: the statement that follows each statement.
SetupAfter(step) ==
    CASE step = "parse" -> "indexer"
      [] step = "indexer" -> "resync"
      [] step = "resync" -> "runtime"
      [] step = "runtime" -> "bind"
      [] step = "bind" -> "serve"
      [] step = "serve" -> "register"
      [] step = "register" -> "done"

\* setup_chronik: true for Ok(()), init_error(..) for an error.
setup_chronik(ok) == IF ok THEN "true" ELSE "false"

\* A statement of try_setup_chronik: it has its effect, leaves the addresses
\* as hs, and control moves on; or it fails, `?` returns the error, the locals
\* are dropped and setup_chronik reports it. After the last statement
\* setup_chronik returns true.
SetupStep(step, ok, hs) ==
    /\ spc = step
    /\ IF ok
       THEN /\ steps' = steps \cup {step}
            /\ spc' = SetupAfter(step)
            /\ hosts' = hs
            /\ setupResult' =
                   IF SetupAfter(step) = "done" THEN setup_chronik(TRUE)
                   ELSE setupResult
       ELSE /\ spc' = "done"
            /\ hosts' = <<>>
            /\ setupResult' = setup_chronik(FALSE)
            /\ UNCHANGED steps
    /\ params' = NoParams
    /\ UNCHANGED <<engine, lock, node, qpc, hist, nodeAdded, nodePending, badHost, codec>>

\* params.hosts.into_iter().map(..).collect::<Result<Vec<_>>>()?
parse_hosts ==
    LET r == collect(params.hosts, params.default_port, <<>>)
    IN  SetupStep("parse", r.ok, r.addrs)

\* ChronikIndexer::setup(..)?
ChronikIndexer_setup == \E ok \in BOOLEAN : SetupStep("indexer", ok, hosts)

\* indexer.resync_indexer(bridge_ref)?
resync_indexer == \E ok \in BOOLEAN : SetupStep("resync", ok, hosts)

\* tokio::runtime::Builder::new_multi_thread().enable_all().build()?
runtime_build == \E ok \in BOOLEAN : SetupStep("runtime", ok, hosts)

\* runtime.block_on(ChronikServer::setup(ChronikServerParams { hosts, indexer }))?
\* The addresses move into the server, which binds them.
ChronikServer_setup == \E ok \in BOOLEAN : SetupStep("bind", ok, <<>>)

\* runtime.spawn(server.serve())
spawn_serve == SetupStep("serve", TRUE, hosts)

\* StartChronikValidationInterface(node, chronik); Ok(())
StartChronikValidationInterface == SetupStep("register", TRUE, hosts)

NextSetup ==
    \/ parse_hosts
    \/ ChronikIndexer_setup
    \/ resync_indexer
    \/ runtime_build
    \/ ChronikServer_setup
    \/ spawn_serve
    \/ StartChronikValidationInterface
    \/ Next

SpecSetup == InitSetup /\ [][NextSetup]_vars

\* No callback has been delivered and no query accepted.
NothingProcessed ==
    /\ nInvoked = 0
    /\ npc = "idle"
    /\ \A q \in Queries : qpc[q] = "idle"
    /\ readers = {}
    /\ mempool = {}
    /\ index_blocks = {}

\* C11: if a host of the parameters is neither a socket address nor a bare
\* IP, setup reports failure and has had no effect: the indexer is not set up
\* or resynced, the server is not bound or started, the validation interface
\* is not registered, so no callback and no query is ever processed.
C11_BadHostAbortsSetup ==
    badHost > 0 =>
        /\ steps = {}
        /\ hosts = <<>>
        /\ setupResult # "true"
        /\ spc \in {"parse", "done"}
        /\ spc = "done" => setupResult = "false"
        /\ NothingProcessed

\* Setup has returned failure for parameters whose first host is a bare IP and
\* whose second host does not parse.
C11_Witness ==
    /\ badHost = 2
    /\ spc = "done"
    /\ setupResult = "false"

\* The statements of try_setup_chronik in the order the function lists them.
StepOrder == <<"parse", "indexer", "resync", "runtime", "bind", "serve", "register">>

\* The first k statements.
FirstSteps(k) == {StepOrder[i] : i \in 1..k}

\* A query is waiting for or holding shared access.
QueryActive == readers # {} \/ \E q \in Queries : qpc[q] # "idle"

\* C20: the setup steps run in one fixed order: the hosts are parsed, the
\* indexer is set up and its resync completes, then the server is bound and
\* serving, and only then the validation interface is registered; no query is
\* served and no callback applied before the resync has completed; a step that
\* fails stops setup before every later step.
C20_SetupOrder ==
    /\ [](\E k \in 0..Len(StepOrder) : steps = FirstSteps(k))
    /\ [](QueryActive => SetupSteps \ {"register"} \subseteq steps)
    /\ [](nInvoked > 0 \/ npc # "idle" \/ mempool # {} \/ index_blocks # {}
              => steps = SetupSteps)
    /\ [](setupResult = "true" <=> (spc = "done" /\ steps = SetupSteps))
    /\ [](setupResult = "false" =>
              spc = "done" /\ steps # SetupSteps /\ NothingProcessed)
    /\ [][steps \subseteq steps' /\ (setupResult # "none" => steps' = steps)]_vars

\* Setup has succeeded, the node has delivered a callback and a query holds
\* shared access.
C20_Witness ==
    /\ setupResult = "true"
    /\ nInvoked > 0
    /\ readers # {}

\* Setup has failed at the resync: the indexer was set up, nothing later ran.
C20_WitnessFailure ==
    /\ setupResult = "false"
    /\ steps = FirstSteps(2)

\* A query holds shared access before the validation interface is registered.
C20_WitnessQueryBeforeRegistration ==
    /\ readers # {}
    /\ ~Registered

\* The adapter's conversion is the handler's next statement: bridge_tx for a
\* transaction, make_chronik_block for a block.
ConversionDue == npc = "locked" /\ op \in {"add", "connect", "disconnect", "finalize"}

\* The conversion has succeeded and the mutation is being applied.
MutationDue == npc \in {"apply", "each"}

\* The statements between blocking_write() and the drop of its guard.
GuardScope ==
    \/ npc \in {"locked", "apply", "each", "ret"}
    \/ op = "remove" /\ npc \in {"check", "aborted"}

\* C16 as stated: the conversion happens before exclusive access is acquired,
\* exclusive access is held only while the mutation is applied, and it is
\* released before the event is acknowledged.
C16_ConversionBeforeGuard ==
    /\ ConversionDue => ~writer
    /\ writer => MutationDue
    /\ npc = "idle" => ~writer

\* C16, amended: the conversion happens after exclusive access is acquired,
\* under the guard; exclusive access is held from its acquisition, through the
\* conversion, until the mutation is applied, and no longer; it is released
\* before the event is acknowledged to the node.
C16_ConversionUnderGuard ==
    /\ (ConversionDue \/ MutationDue) => writer /\ readers = {}
    /\ writer => GuardScope \/ npc = "wait"
    /\ npc = "idle" => ~writer /\ ~NodeQueued

\* A block has been converted under the guard, while a query waits for it.
C16_Witness ==
    /\ op = "connect"
    /\ npc = "apply"
    /\ writer
    /\ \E q \in Queries : qpc[q] = "waiting"

\* The state of block b in the engine.
BlockState(b) ==
    IF b \in index_final THEN "finalized"
    ELSE IF b \in index_blocks THEN "connected"
    ELSE "unknown"

\* The block's recorded transactions.
RecordedTxs(b) == {t \in TxIds : index_txs[t] = b}

\* C17: each block follows unknown -> connected -> finalized, with
\* connected -> unknown on disconnect: every block marked finalized is
\* connected, the block-finalized callback changes only the finality marking
\* (not the recorded transactions, not the mempool), and a finalized block
\* never returns to unknown.
C17_BlockStateMachine ==
    /\ [](index_final \subseteq index_blocks)
    /\ [](\A b \in index_blocks : RecordedTxs(b) = BlockTxs(b))
    /\ [](op = "finalize" /\ npc = "ret" => BlockState(argBlock) = "finalized")
    /\ [][op = "finalize" =>
              /\ UNCHANGED <<mempool, index_blocks, index_txs>>
              /\ index_final' \in {index_final, index_final \cup {argBlock}}]_vars
    /\ [][\A b \in BlockIds :
              /\ BlockState(b) = "finalized" => BlockState(b)' = "finalized"
              /\ BlockState(b) = "unknown" => BlockState(b)' # "finalized"
              /\ BlockState(b) # BlockState(b)' =>
                    /\ b = argBlock
                    /\ op = CASE BlockState(b)' = "connected" -> "connect"
                              [] BlockState(b)' = "finalized" -> "finalize"
                              [] BlockState(b)' = "unknown" -> "disconnect"]_vars

\* Block 1 is finalized and block 2 has been connected and disconnected on
\* top of it.
C17_Witness ==
    /\ BlockState(1) = "finalized"
    /\ BlockState(2) = "unknown"
    /\ op = "disconnect"
    /\ argBlock = 2
    /\ npc = "ret"

\* No callback and no query is in flight.
Quiescent == npc = "idle" /\ \A q \in Queries : qpc[q] = "idle"

\* The blocks the node has connected and not since disconnected.
NodeConnected == 1..nodeTip

\* C18 as stated: at every quiescent point the mempool model holds exactly
\* the transactions that were added and have since been neither removed nor
\* mined into a currently connected block.
C18_MempoolIsAddedNotRemovedNotMined ==
    Quiescent =>
        /\ MempoolTxIds = {t \in nodeAdded : ~Confirmed(t, nodeTip)}
        /\ \A t \in TxIds : ~(MempoolQuery(t) /\ IndexQuery(t) # 0)
        /\ index_blocks = NodeConnected

\* C18, amended: at every quiescent point the mempool model holds exactly the
\* transactions that were added, or returned to pending by a block-disconnected,
\* and have since been neither removed nor mined into a connected block; no
\* TxId is both in the mempool model and confirmed in a connected block; and
\* the connected blocks of the index are the blocks connected and not since
\* disconnected.
C18_MempoolIsNodePending ==
    Quiescent =>
        /\ MempoolTxIds = nodePending
        /\ \A t \in TxIds : ~(MempoolQuery(t) /\ IndexQuery(t) # 0)
        /\ \A t \in TxIds : IndexQuery(t) # 0 <=> Confirmed(t, nodeTip)
        /\ index_blocks = NodeConnected

\* A quiescent point after tx-added, block-connected, block-disconnected and
\* tx-removed: the mempool holds a transaction of the disconnected block that
\* the node never announced.
C18_Witness ==
    /\ Quiescent
    /\ nInvoked = 4
    /\ index_blocks = {}
    /\ MempoolTxIds # {}
    /\ MempoolTxIds \cap nodeAdded = {}

\* ----------------------------------------------------------------- progress
\* A statement of the running callback: everything the node's thread does
\* between the invocation of a handler and its return.
HandlerStep ==
    \/ load_block
    \/ blocking_write
    \/ blocking_write_granted
    \/ bridge_tx
    \/ make_chronik_block
    \/ add_tx_to_mempool
    \/ tx_removed_from_mempool
    \/ connect_block
    \/ disconnect_block
    \/ block_txs_mempool
    \/ finalize_block
    \/ return_ok
    \/ handle_return

\* The node's thread keeps running its callback, and every query that has
\* been granted shared access goes on to use it and release it. Nothing
\* obliges the node to invoke a handler or a client to send a query.
Fairness ==
    /\ WF_vars(HandlerStep)
    /\ \A q \in Queries : WF_vars(QueryGranted(q))
    /\ \A q \in Queries : WF_vars(QueryRelease(q))

SpecFair == Spec /\ Fairness

\* C19: provided every query eventually releases its shared access, every
\* callback the node invokes eventually acquires exclusive access and then
\* runs to completion or ends in the fatal abort; a handler returns only from
\* its last statement with an Ok result and asks for the guard once (no
\* cancellation, no retry); and whenever a handler has returned to the node
\* the guard is released and the node is not queued for it.
C19_CallbacksComplete ==
    /\ (npc = "lock") ~> (npc = "locked" /\ writer)
    /\ (npc # "idle") ~> (npc = "idle" \/ aborted)
    /\ [](npc = "idle" => ~writer /\ ~NodeQueued)
    /\ [][npc # "idle" /\ npc' = "idle" => npc = "check" /\ result = "ok"]_vars
    /\ [][npc # "lock" /\ npc' = "lock" => npc \in {"idle", "load"}]_vars

\* The callback queued for the guard behind a reading query and has been
\* granted it on that query's release, ahead of a query that asked later.
C19_Witness ==
    /\ npc = "wait"
    /\ writer
    /\ \E q \in Queries : qpc[q] = "waiting" /\ q \notin readers

\* --------------------------------------------------------- the script codec
MaxScriptLen == 5
MaxSeed == 1

\* Opcodes (script::opcode), by number.
OP_0 == 0
OP_PUSHDATA1 == 76
OP_PUSHDATA2 == 77
OP_PUSHDATA4 == 78
OP_RESERVED == 80
OP_16 == 96
OP_RETURN == 106
OP_DUP == 118
OP_EQUAL == 135
OP_EQUALVERIFY == 136
OP_HASH160 == 169
OP_CHECKSIG == 172
\* The largest opcode that is itself the length of the push.
MaxDirectPush == 75
ShaRmd160_SIZE == 20
PubKey_SIZE == 33
UncompressedPubKey_SIZE == 65

\* n bytes of value v.
Fill(n, v) == [i \in 1..n |-> v]

\* n bytes s+1, s+2, ..
Ramp(n, s) == [i \in 1..n |-> (s + i) % 256]

\* n bytes 00 11 22 .. ff 00 11 .., the pattern of the documentation's examples.
DocPattern(n) == [i \in 1..n |-> ((i - 1) % 16) * 17]

\* The bytes the enumerated bytecodes are made of: every kind of leading byte,
\* and the values that matter as lengths.
ScriptBytes == {OP_0, 1, 2, OP_PUSHDATA1, OP_PUSHDATA2, OP_PUSHDATA4, OP_RESERVED}

\* The two scripts of iter_ops' documentation.
DocSimpleScript == <<3, 1, 2, 3, 135>>

DocComplexScript ==
    <<106, 80, 76, 2, 18, 52, 0, 77, 1, 0, 18, 96, 136, 76, 255, 171, 205>>

\* Longer bytecodes: a full and a short direct push of the largest size, and
\* OP_PUSHDATA4 pushes.
LongScripts ==
    { <<MaxDirectPush>> \o Fill(MaxDirectPush, 1) \o <<OP_EQUAL>>,
      <<MaxDirectPush, 1, 2>>,
      <<OP_PUSHDATA4, 1, 0, 0, 0, 7>>,
      <<OP_PUSHDATA4, 2, 0, 0, 0, 7, 8, OP_0>>,
      <<OP_PUSHDATA1, 3, OP_PUSHDATA1, OP_PUSHDATA2, OP_PUSHDATA4, OP_RETURN>> }

Bytecodes ==
    UNION {[1..n -> ScriptBytes] : n \in 0..MaxScriptLen}
        \cup {DocSimpleScript, DocComplexScript} \cup LongScripts

\* Hashes and keys of n bytes.
Payloads(n) ==
    {DocPattern(n)} \cup {Fill(n, v) : v \in ScriptBytes \cup {255}}
        \cup {Ramp(n, 64 * s) : s \in 0..MaxSeed}

Constructors == {"new", "p2pkh", "p2sh", "p2pk", "p2pk_uncompressed"}

\* The arguments a constructor is given.
Inputs(c) ==
    CASE c = "new" -> Bytecodes
      [] c \in {"p2pkh", "p2sh"} -> Payloads(ShaRmd160_SIZE)
      [] c = "p2pk" -> {<<2>> \o x : x \in Payloads(PubKey_SIZE - 1)}
      [] c = "p2pk_uncompressed" ->
             {<<4>> \o x : x \in Payloads(UncompressedPubKey_SIZE - 1)}

\* ScriptMut: a growable bytecode buffer.
ScriptMut_with_capacity(n) == <<>>

put_opcodes(buf, ops) == buf \o ops

put_bytecode(buf, bytes) == buf \o bytes

freeze(buf) == buf

\* Script::new
Script_new(bytecode) == bytecode

\* Mutant: p2pkh ends in OP_EQUAL OP_CHECKSIG.
p2pkh_with_equal(hash) ==
    LET s0 == ScriptMut_with_capacity(2 + 1 + ShaRmd160_SIZE + 2)
        s1 == put_opcodes(s0, <<OP_DUP, OP_HASH160>>)
        s2 == put_bytecode(s1, <<ShaRmd160_SIZE>>)
        s3 == put_bytecode(s2, hash)
        s4 == put_opcodes(s3, <<OP_EQUAL, OP_CHECKSIG>>)
    IN  freeze(s4)

\* Script::p2pkh
p2pkh(hash) ==
    LET s0 == ScriptMut_with_capacity(2 + 1 + ShaRmd160_SIZE + 2)
        s1 == put_opcodes(s0, <<OP_DUP, OP_HASH160>>)
        s2 == put_bytecode(s1, <<ShaRmd160_SIZE>>)
        s3 == put_bytecode(s2, hash)
        s4 == put_opcodes(s3, <<OP_EQUALVERIFY, OP_CHECKSIG>>)
    IN  freeze(s4)

\* Script::p2sh
p2sh(hash) ==
    LET s0 == ScriptMut_with_capacity(1 + 1 + ShaRmd160_SIZE + 1)
        s1 == put_opcodes(s0, <<OP_HASH160>>)
        s2 == put_bytecode(s1, <<ShaRmd160_SIZE>>)
        s3 == put_bytecode(s2, hash)
        s4 == put_opcodes(s3, <<OP_EQUAL>>)
    IN  freeze(s4)

\* Script::p2pk
p2pk(pubkey) ==
    LET s0 == ScriptMut_with_capacity(1 + PubKey_SIZE + 1)
        s1 == put_bytecode(s0, <<PubKey_SIZE>>)
        s2 == put_bytecode(s1, pubkey)
        s3 == put_opcodes(s2, <<OP_CHECKSIG>>)
    IN  freeze(s3)

\* Script::p2pk_uncompressed
p2pk_uncompressed(pubkey) ==
    LET s0 == ScriptMut_with_capacity(1 + UncompressedPubKey_SIZE + 1)
        s1 == put_bytecode(s0, <<UncompressedPubKey_SIZE>>)
        s2 == put_bytecode(s1, pubkey)
        s3 == put_opcodes(s2, <<OP_CHECKSIG>>)
    IN  freeze(s3)

\* The items an iterator yields.
OpCode(opcode) ==
    [kind |-> "code", opcode |-> opcode, data |-> <<>>, expected |-> 0, actual |-> 0]

OpPush(opcode, data) ==
    [kind |-> "push", opcode |-> opcode, data |-> data, expected |-> 0, actual |-> 0]

\* Err(DataError::InvalidLength { expected, actual })
InvalidLength(expected, actual) ==
    [kind |-> "err", opcode |-> 0, data |-> <<>>, expected |-> expected,
     actual |-> actual]

\* The little-endian number the bytes spell.
RECURSIVE from_le_bytes(_)
from_le_bytes(bytes) ==
    IF bytes = <<>> THEN 0 ELSE Head(bytes) + 256 * from_le_bytes(Tail(bytes))

\* Taking n bytes off the front: the bytes and what is left, or the length
\* error, with the bytes untouched.
split_to(bytes, n) ==
    IF n > Len(bytes)
    THEN [ok |-> FALSE, data |-> <<>>, rest |-> bytes,
          err |-> InvalidLength(n, Len(bytes))]
    ELSE [ok |-> TRUE, data |-> SubSeq(bytes, 1, n),
          rest |-> SubSeq(bytes, n + 1, Len(bytes)),
          err |-> InvalidLength(0, 0)]

\* The width of the length field that follows the opcode.
LengthFieldSize(opcode) ==
    CASE opcode = OP_PUSHDATA1 -> 1
      [] opcode = OP_PUSHDATA2 -> 2
      [] opcode = OP_PUSHDATA4 -> 4
      [] OTHER -> 0

\* The push of n bytes that opcode announces.
read_push(opcode, bytes, n) ==
    LET d == split_to(bytes, n)
    IN  IF d.ok THEN [item |-> OpPush(opcode, d.data), rest |-> d.rest]
        ELSE [item |-> d.err, rest |-> d.rest]

\* Mutant: byte 0x00 is decoded as a push of no bytes.
next_op_zero_is_push(bytes) ==
    LET opcode == Head(bytes)
        after == Tail(bytes)
    IN  IF opcode \in 0..MaxDirectPush
        THEN read_push(opcode, after, opcode)
        ELSE IF LengthFieldSize(opcode) > 0
        THEN LET size == split_to(after, LengthFieldSize(opcode))
             IN  IF size.ok
                 THEN read_push(opcode, size.rest, from_le_bytes(size.data))
                 ELSE [item |-> size.err, rest |-> size.rest]
        ELSE [item |-> OpCode(opcode), rest |-> after]

\* ScriptOpIter::next_op: the operation at the front of the bytes, which are
\* not empty, and the bytes after it.
next_op(bytes) ==
    LET opcode == Head(bytes)
        after == Tail(bytes)
    IN  IF opcode \in 1..MaxDirectPush
        THEN read_push(opcode, after, opcode)
        ELSE IF LengthFieldSize(opcode) > 0
        THEN LET size == split_to(after, LengthFieldSize(opcode))
             IN  IF size.ok
                 THEN read_push(opcode, size.rest, from_le_bytes(size.data))
                 ELSE [item |-> size.err, rest |-> size.rest]
        ELSE [item |-> OpCode(opcode), rest |-> after]

\* Mutant: the iterator is given the serialized script, its length byte first.
iter_ops_over_serialized(s) == <<Len(s)>> \o s

\* Script::iter_ops: ScriptOpIter::new(self.0.clone()), the bytes the iterator
\* starts from.
iter_ops(s) == s

\* A constructor has been called with some argument, or (see the
\* serialization) a Script is about to be serialized.
ScriptJob ==
    /\ ctor \in Constructors
    /\ input \in Inputs(ctor)
    /\ script = <<>>
    /\ remaining = <<>>
    /\ items = <<>>
    /\ ipc = "construct"
    /\ payload = NoBytes
    /\ wire = NoWire
    /\ wireLen = NoSize
    /\ decoded = NoResult

\* The constructor returns the script.
Construct(c, s) ==
    /\ ipc = "construct"
    /\ ctor = c
    /\ script' = s
    /\ ipc' = "built"
    /\ UNCHANGED <<ctor, input, remaining, items, payload, wire, wireLen, decoded>>
    /\ UNCHANGED bridge

new_script == Construct("new", Script_new(input))

new_p2pkh == Construct("p2pkh", p2pkh(input))

new_p2sh == Construct("p2sh", p2sh(input))

new_p2pk == Construct("p2pk", p2pk(input))

new_p2pk_uncompressed == Construct("p2pk_uncompressed", p2pk_uncompressed(input))

\* let mut iter = script.iter_ops()
new_iter ==
    /\ ipc = "built"
    /\ remaining' = iter_ops(script)
    /\ items' = <<>>
    /\ ipc' = "iter"
    /\ UNCHANGED <<ctor, input, script, payload, wire, wireLen, decoded>>
    /\ UNCHANGED bridge

\* Mutant: after an error the iterator goes on from the bytes after the opcode.
ScriptOpIter_next_resuming ==
    /\ ipc = "iter"
    /\ IF remaining = <<>>
       THEN /\ ipc' = "ended"
            /\ UNCHANGED <<remaining, items>>
       ELSE /\ items' = Append(items, next_op(remaining).item)
            /\ remaining' =
                   IF next_op(remaining).item.kind = "err" THEN Tail(remaining)
                   ELSE next_op(remaining).rest
            /\ UNCHANGED ipc
    /\ UNCHANGED <<ctor, input, script, payload, wire, wireLen, decoded>>
    /\ UNCHANGED bridge

\* ScriptOpIter::next: None once the bytes are used up; otherwise the next
\* operation, or the error, after which nothing is left to decode.
ScriptOpIter_next ==
    /\ ipc = "iter"
    /\ IF remaining = <<>>
       THEN /\ ipc' = "ended"
            /\ UNCHANGED <<remaining, items>>
       ELSE /\ items' = Append(items, next_op(remaining).item)
            /\ remaining' =
                   IF next_op(remaining).item.kind = "err" THEN <<>>
                   ELSE next_op(remaining).rest
            /\ UNCHANGED ipc
    /\ UNCHANGED <<ctor, input, script, payload, wire, wireLen, decoded>>
    /\ UNCHANGED bridge

\* ------------------------------------------------------------ serialization
LenSlack == 1

\* A length, as hi * 2^16 + lo with lo < 2^16: lengths reach past 2^32.
Size(hi, lo) == [hi |-> hi, lo |-> lo]

\* The length n, for n below 2^31.
SizeOf(n) == Size(n \div 65536, n % 65536)

SizePlus(a, b) == Size(a.hi + b.hi + (a.lo + b.lo) \div 65536, (a.lo + b.lo) % 65536)

SizeLeq(a, b) == a.hi < b.hi \/ (a.hi = b.hi /\ a.lo <= b.lo)

\* a - b, for b <= a.
SizeMinus(a, b) ==
    IF a.lo >= b.lo THEN Size(a.hi - b.hi, a.lo - b.lo)
    ELSE Size(a.hi - b.hi - 1, a.lo + 65536 - b.lo)

\* The numbers within LenSlack of c.
Around(c) == {n \in (c - LenSlack)..(c + LenSlack) : n >= 0 /\ n < 65536}

\* Lengths on both sides of every boundary of the compact size: 0xfd, 0x10000
\* and 0x100000000.
Sizes ==
    {Size(hi, lo) : hi \in Around(0) \cup {65535} \cup {65536 + k : k \in 0..LenSlack},
                    lo \in Around(0) \cup Around(253) \cup Around(65535)}

\* Bytecode of the given length whose bytes alternate between the two of pat.
Patterns == {<<81, 82>>, <<4, 4>>, <<5, 5>>, <<253, 0>>}

BigBytes == [len : Sizes, pat : Patterns]

\* The i-th byte (from 0) of such bytecode; i is below its length.
BigByteAt(b, i) == b.pat[(i % 2) + 1]

\* The low `width` bytes of a length, little-endian.
to_le_bytes(size, width) ==
    [i \in 1..width |->
        CASE i = 1 -> size.lo % 256
          [] i = 2 -> size.lo \div 256
          [] i = 3 -> size.hi % 256
          [] i = 4 -> (size.hi \div 256) % 256
          [] i = 5 -> (size.hi \div 65536) % 256
          [] i = 6 -> size.hi \div 16777216
          [] OTHER -> 0]

\* write_compact_size: the smallest of the four forms that holds the length.
write_compact_size(size) ==
    IF size.hi = 0 /\ size.lo < 253 THEN <<size.lo>>
    ELSE IF size.hi = 0 THEN <<253>> \o to_le_bytes(size, 2)
    ELSE IF size.hi <= 65535 THEN <<254>> \o to_le_bytes(size, 4)
    ELSE <<255>> \o to_le_bytes(size, 8)

\* impl BitcoinSer for Bytes: the compact size of the length, then the bytes.
\* The serialized form is kept as the explicit bytes of the head and the
\* bytecode that follows them.
Bytes_ser_to(b) == [head |-> write_compact_size(b.len), body |-> b]

\* Mutant: the bytecode is written as it is (put_slice), without its length.
Script_ser_to_raw(s) == [head |-> <<>>, body |-> s]

\* impl BitcoinSer for Script: self.0.ser_to(bytes)
Script_ser_to(s) == Bytes_ser_to(s)

\* BitcoinSer::ser: the bytes ser_to writes.
ser(s) == Script_ser_to(s)

\* BitcoinSer::ser_len: the number of bytes ser_to writes.
ser_len(s) == SizePlus(SizeOf(Len(Script_ser_to(s).head)), Script_ser_to(s).body.len)

\* The serialized form as a stream: its length, and its i-th byte (from 0).
WireLen(w) == SizePlus(SizeOf(Len(w.head)), w.body.len)

WireHas(w, n) == SizeLeq(SizeOf(n), WireLen(w))

WireByteAt(w, i) ==
    IF i < Len(w.head) THEN w.head[i + 1] ELSE BigByteAt(w.body, i - Len(w.head))

\* The length the little-endian bytes spell; lengths of 2^47 and more are only
\* told apart from the others (huge).
from_le_size(bytes) ==
    LET at(i) == IF i <= Len(bytes) THEN bytes[i] ELSE 0
    IN  [huge |-> at(6) >= 128 \/ at(7) > 0 \/ at(8) > 0,
         size |-> Size(at(3) + 256 * at(4) + 65536 * at(5) + 16777216 * (at(6) % 128),
                       at(1) + 256 * at(2))]

\* read_compact_size at the front of the stream: the length and the number of
\* bytes it took, if the stream holds them.
read_compact_size(w) ==
    LET width ==
            IF ~WireHas(w, 1) THEN 0
            ELSE CASE WireByteAt(w, 0) = 253 -> 2
                   [] WireByteAt(w, 0) = 254 -> 4
                   [] WireByteAt(w, 0) = 255 -> 8
                   [] OTHER -> 0
        field == [i \in 1..width |-> WireByteAt(w, i)]
    IN  IF ~WireHas(w, 1 + width)
        THEN [ok |-> FALSE, size |-> Size(0, 0), used |-> 0]
        ELSE IF width = 0
        THEN [ok |-> TRUE, size |-> SizeOf(WireByteAt(w, 0)), used |-> 1]
        ELSE [ok |-> ~from_le_size(field).huge, size |-> from_le_size(field).size,
              used |-> 1 + width]

\* Reading a Script back: the compact size, then that many bytes. The result
\* holds the bytes read (marked <<-1, -1>> when they do not start at the first
\* byte of the bytecode) and the number of bytes left over.
deser(w) ==
    LET n == read_compact_size(w)
        avail == SizeMinus(WireLen(w), SizeOf(n.used))
    IN  IF ~n.ok \/ ~SizeLeq(n.size, avail)
        THEN [ok |-> FALSE, bytes |-> NoBytes, left |-> Size(0, 0)]
        ELSE [ok |-> TRUE,
              bytes |-> IF n.used = Len(w.head)
                        THEN [len |-> n.size, pat |-> w.body.pat]
                        ELSE [len |-> n.size, pat |-> <<-1, -1>>],
              left |-> SizeMinus(avail, n.size)]

\* A Script is about to be serialized.
SerJob ==
    /\ ctor = "none"
    /\ input = <<>>
    /\ script = <<>>
    /\ remaining = <<>>
    /\ items = <<>>
    /\ ipc = "none"
    /\ payload \in BigBytes
    /\ wire = NoWire
    /\ wireLen = NoSize
    /\ decoded = NoResult

\* script.ser()
call_ser ==
    /\ payload # NoBytes
    /\ wire = NoWire
    /\ wire' = ser(payload)
    /\ UNCHANGED <<ctor, input, script, remaining, items, ipc, payload, wireLen, decoded>>
    /\ UNCHANGED bridge

\* script.ser_len()
call_ser_len ==
    /\ payload # NoBytes
    /\ wireLen = NoSize
    /\ wireLen' = ser_len(payload)
    /\ UNCHANGED <<ctor, input, script, remaining, items, ipc, payload, wire, decoded>>
    /\ UNCHANGED bridge

\* The serialized bytes are read back.
call_deser ==
    /\ wire # NoWire
    /\ decoded = NoResult
    /\ decoded' = deser(wire)
    /\ UNCHANGED <<ctor, input, script, remaining, items, ipc, payload, wire, wireLen>>
    /\ UNCHANGED bridge

InitCodec ==
    /\ InitBridge
    /\ SetupDone
    /\ ScriptJob \/ SerJob

NextCodec ==
    \/ new_script
    \/ new_p2pkh
    \/ new_p2sh
    \/ new_p2pk
    \/ new_p2pk_uncompressed
    \/ new_iter
    \/ ScriptOpIter_next
    \/ call_ser
    \/ call_ser_len
    \/ call_deser

SpecCodec == InitCodec /\ [][NextCodec]_vars

\* ------------------------------------------------------ claims on the codec
\* No item of the sequence is an error.
NoError(its) == \A i \in 1..Len(its) : its[i].kind # "err"

\* The number of bytes an operation takes in the bytecode.
ItemSize(it) ==
    IF it.kind = "push" THEN 1 + LengthFieldSize(it.opcode) + Len(it.data) ELSE 1

\* The number of bytes the operations take together.
RECURSIVE Consumed(_)
Consumed(its) ==
    IF its = <<>> THEN 0 ELSE ItemSize(Head(its)) + Consumed(Tail(its))

\* The items before the i-th.
Before(its, i) == SubSeq(its, 1, i - 1)

\* The number the w bytes of the script after offset o spell, little-endian.
FieldAt(s, o, w) ==
    CASE w = 1 -> s[o + 1]
      [] w = 2 -> s[o + 1] + 256 * s[o + 2]
      [] w = 4 -> s[o + 1] + 256 * s[o + 2] + 65536 * s[o + 3] + 16777216 * s[o + 4]

\* The iterator has been created.
Iterating == ipc \in {"iter", "ended"}

\* C12: the sequence iter_ops yields holds at most one error item, and it is
\* the last: nothing is yielded after it and the bytes after it are not
\* looked at. With no error the sequence ends exactly when the bytecode is
\* used up. A trailing push whose declared length exceeds the bytes that
\* remain yields the error with expected = the declared length and actual =
\* the bytes remaining.
C12_ErrorEndsIteration ==
    Iterating =>
        LET n == Len(items)
            o == Consumed(Before(items, n))
            w == LengthFieldSize(script[o + 1])
        IN  /\ NoError(Before(items, n))
            /\ NoError(items) =>
                   /\ remaining = SubSeq(script, Consumed(items) + 1, Len(script))
                   /\ ipc = "ended" => Consumed(items) = Len(script)
                   /\ Consumed(items) < Len(script) => ipc = "iter" /\ remaining # <<>>
            /\ ~NoError(items) =>
                   /\ remaining = <<>>
                   /\ o < Len(script)
                   /\ script[o + 1] \in 1..OP_PUSHDATA4
                   /\ o + 1 + w <= Len(script) =>
                          LET declared == IF w = 0 THEN script[o + 1]
                                          ELSE FieldAt(script, o + 1, w)
                          IN  /\ items[n].expected = declared
                              /\ items[n].actual = Len(script) - (o + 1 + w)
                              /\ declared > items[n].actual
                   /\ o + 1 + w > Len(script) =>
                          /\ items[n].expected = w
                          /\ items[n].actual = Len(script) - (o + 1)

\* The complex script of the documentation has been decoded to its end: seven
\* operations, then the error of the push of 0xff bytes with 2 remaining.
C12_Witness ==
    /\ ipc = "ended"
    /\ script = DocComplexScript
    /\ Len(items) = 8
    /\ NoError(Before(items, 8))
    /\ items[8] = InvalidLength(255, 2)

\* The operation, or the error, that the bytecode s holds at offset o.
OpAt(s, o) ==
    LET N == s[o + 1]
        w == LengthFieldSize(N)
        left == Len(s) - (o + 1)
    IN  IF N \in 1..MaxDirectPush
        THEN IF N <= left THEN OpPush(N, SubSeq(s, o + 2, o + 1 + N))
             ELSE InvalidLength(N, left)
        ELSE IF N \in {OP_PUSHDATA1, OP_PUSHDATA2, OP_PUSHDATA4}
        THEN IF w > left THEN InvalidLength(w, left)
             ELSE IF FieldAt(s, o + 1, w) <= left - w
             THEN OpPush(N, SubSeq(s, o + 2 + w, o + 1 + w + FieldAt(s, o + 1, w)))
             ELSE InvalidLength(FieldAt(s, o + 1, w), left - w)
        ELSE OpCode(N)

\* The bytes that encode an operation.
OpBytes(it) ==
    LET n == Len(it.data)
    IN  CASE it.kind = "code" -> <<it.opcode>>
          [] it.kind = "push" /\ it.opcode = OP_PUSHDATA1 -> <<it.opcode, n>> \o it.data
          [] it.kind = "push" /\ it.opcode = OP_PUSHDATA2 ->
                 <<it.opcode, n % 256, n \div 256>> \o it.data
          [] it.kind = "push" /\ it.opcode = OP_PUSHDATA4 ->
                 <<it.opcode, n % 256, (n \div 256) % 256, (n \div 65536) % 256,
                   n \div 16777216>> \o it.data
          [] OTHER -> <<it.opcode>> \o it.data

RECURSIVE OpsBytes(_)
OpsBytes(its) ==
    IF its = <<>> THEN <<>> ELSE OpBytes(Head(its)) \o OpsBytes(Tail(its))

\* What the documentation of iter_ops expects of its two scripts.
DocSimpleOps == <<OpPush(3, <<1, 2, 3>>), OpCode(OP_EQUAL)>>

DocComplexOps ==
    <<OpCode(OP_RETURN), OpCode(OP_RESERVED), OpPush(OP_PUSHDATA1, <<18, 52>>),
      OpCode(OP_0), OpPush(OP_PUSHDATA2, <<18>>), OpCode(OP_16),
      OpCode(OP_EQUALVERIFY), InvalidLength(255, 2)>>

\* C13: decoding goes by the leading byte: a byte N in 0x01..0x4b yields a
\* push of the next N bytes; OP_PUSHDATA1/2/4 read a 1/2/4-byte little-endian
\* length and yield a push of that many bytes; every other byte, 0x00 and the
\* reserved codes included, yields a bare opcode; a push with fewer bytes left
\* than it needs yields the length error with the expected and the available
\* number of bytes. The items come in the order of the bytecode and, with no
\* error, their bytes are the bytecode, each byte once.
C13_DecodeByLeadingByte ==
    Iterating =>
        /\ \A i \in 1..Len(items) :
               NoError(Before(items, i)) =>
                   items[i] = OpAt(script, Consumed(Before(items, i)))
        /\ NoError(items) => OpsBytes(items) = SubSeq(script, 1, Consumed(items))
        /\ ipc = "ended" /\ NoError(items) => OpsBytes(items) = script
        /\ ipc = "ended" /\ script = DocSimpleScript => items = DocSimpleOps
        /\ ipc = "ended" /\ script = DocComplexScript => items = DocComplexOps

\* A script of an OP_PUSHDATA4 push of two bytes and OP_0 has been decoded to
\* its end.
C13_Witness ==
    /\ ipc = "ended"
    /\ script = <<OP_PUSHDATA4, 2, 0, 0, 0, 7, 8, OP_0>>
    /\ items = <<OpPush(OP_PUSHDATA4, <<7, 8>>), OpCode(OP_0)>>

\* A script of enumerated bytes ends in an OP_PUSHDATA2 whose length field is
\* cut short, after a direct push and OP_0.
C13_WitnessShortField ==
    /\ ipc = "ended"
    /\ script = <<1, OP_PUSHDATA2, OP_0, OP_PUSHDATA2, 2>>
    /\ items = <<OpPush(1, <<OP_PUSHDATA2>>), OpCode(OP_0), InvalidLength(2, 1)>>

\* The script has been constructed.
Built == ipc \in {"built", "iter", "ended"}

\* C14: p2pkh(h) is 76 a9 14 <h> 88 ac and p2sh(h) is a9 14 <h> 87 for a
\* 20-byte h; p2pk(k) is 21 <k> ac for a 33-byte k and p2pk_uncompressed(k) is
\* 41 <k> ac for a 65-byte k. The constructors cannot fail, the script has
\* the length the buffer was sized for, and it decodes without error to the
\* operations of its template.
C14_StandardScripts ==
    /\ Built /\ ctor = "p2pkh" =>
           /\ Len(input) = 20
           /\ script = <<118, 169, 20>> \o input \o <<136, 172>>
           /\ Len(script) = 25
           /\ ipc = "ended" =>
                  items = <<OpCode(OP_DUP), OpCode(OP_HASH160), OpPush(20, input),
                            OpCode(OP_EQUALVERIFY), OpCode(OP_CHECKSIG)>>
    /\ Built /\ ctor = "p2sh" =>
           /\ Len(input) = 20
           /\ script = <<169, 20>> \o input \o <<135>>
           /\ Len(script) = 23
           /\ ipc = "ended" =>
                  items = <<OpCode(OP_HASH160), OpPush(20, input), OpCode(OP_EQUAL)>>
    /\ Built /\ ctor = "p2pk" =>
           /\ Len(input) = 33
           /\ script = <<33>> \o input \o <<172>>
           /\ Len(script) = 35
           /\ ipc = "ended" => items = <<OpPush(33, input), OpCode(OP_CHECKSIG)>>
    /\ Built /\ ctor = "p2pk_uncompressed" =>
           /\ Len(input) = 65
           /\ script = <<65>> \o input \o <<172>>
           /\ Len(script) = 67
           /\ ipc = "ended" => items = <<OpPush(65, input), OpCode(OP_CHECKSIG)>>
    /\ ipc = "construct" => ctor \in Constructors /\ script = <<>>

\* p2pkh of the hash of the documentation has been built and decoded: the
\* script is 76a914 00112233445566778899aabbccddeeff00112233 88ac.
C14_Witness ==
    /\ ctor = "p2pkh"
    /\ ipc = "ended"
    /\ input = DocPattern(20)
    /\ script = <<118, 169, 20, 0, 17, 34, 51, 68, 85, 102, 119, 136, 153, 170,
                  187, 204, 221, 238, 255, 0, 17, 34, 51, 136, 172>>

\* p2pk_uncompressed of the key of the documentation has been built.
C14_WitnessUncompressed ==
    /\ ctor = "p2pk_uncompressed"
    /\ ipc = "built"
    /\ input = <<4>> \o DocPattern(64)
    /\ script = <<65, 4>> \o DocPattern(64) \o <<172>>

\* The number of bytes the compact size of a length takes.
CompactSizeLen(L) ==
    IF L.hi = 0 /\ L.lo < 253 THEN 1
    ELSE IF L.hi = 0 THEN 3
    ELSE IF L.hi <= 65535 THEN 5
    ELSE 9

\* C15: a Script whose bytecode b has length L serializes to the compact
\* size of L followed by b: one byte for L < 0xfd; 0xfd and L in 2 bytes
\* little-endian for 0xfd <= L <= 0xffff; 0xfe and L in 4 bytes for
\* 0x10000 <= L <= 0xffffffff; 0xff and L in 8 bytes above. ser_len is 1, 3,
\* 5 or 9 plus L, and reading the serialization back gives b and uses every
\* byte.
C15_CompactSizeThenBytes ==
    LET L == payload.len
        h == wire.head
        k == CompactSizeLen(L)
    IN  /\ wire # NoWire =>
               /\ wire.body = payload
               /\ Len(h) = k
               /\ \A i \in 1..k : h[i] \in 0..255
               /\ k = 1 => h[1] = L.lo
               /\ k = 3 => h[1] = 253 /\ L.lo >= 253
               /\ k = 5 => h[1] = 254 /\ L.hi >= 1
               /\ k = 9 => h[1] = 255 /\ L.hi >= 65536
               /\ k >= 3 => h[2] + 256 * h[3] = L.lo
               /\ k = 5 => h[4] + 256 * h[5] = L.hi
               /\ k = 9 => /\ h[4] + 256 * h[5] + 65536 * h[6] + 16777216 * h[7] = L.hi
                           /\ h[8] = 0
                           /\ h[9] = 0
               /\ payload = [len |-> Size(0, 0), pat |-> <<81, 82>>] => h = <<0>>
               /\ payload = [len |-> Size(0, 1), pat |-> <<81, 82>>] => h = <<1>>
               /\ payload = [len |-> Size(0, 253), pat |-> <<4, 4>>] => h = <<253, 253, 0>>
               /\ payload = [len |-> Size(1, 0), pat |-> <<5, 5>>] => h = <<254, 0, 0, 1, 0>>
        /\ wireLen # NoSize =>
               /\ wireLen.lo = (L.lo + k) % 65536
               /\ wireLen.hi = L.hi + (IF L.lo + k >= 65536 THEN 1 ELSE 0)
        /\ decoded # NoResult =>
               decoded = [ok |-> TRUE, bytes |-> payload, left |-> Size(0, 0)]

\* Bytecode of 2^32 bytes has been serialized with the 8-byte form, measured
\* and read back.
C15_Witness ==
    /\ payload.len = Size(65536, 0)
    /\ wire.head = <<255, 0, 0, 0, 0, 1, 0, 0, 0>>
    /\ wireLen = Size(65536, 9)
    /\ decoded.ok

\* Bytecode of 0xffff bytes has been serialized with the 2-byte form; its
\* serialization is 0x10002 bytes long.
C15_WitnessTwoBytes ==
    /\ payload.len = Size(0, 65535)
    /\ wire.head = <<253, 255, 255>>
    /\ wireLen = Size(1, 2)
    /\ decoded.ok

====
